---------------------------- MODULE Spec2Model ----------------------------
(***************************************************************************)
(* The travel-blog backend's content lifecycle: the Blog and User stores,  *)
(* the blog routes (read by identifier, create, update, delete, bulk) and  *)
(* the analytics dashboard; and the browser's AuthProvider.                *)
(* Every route handler is an async function; each action below is one      *)
(* store operation of a handler together with the handler code around it   *)
(* that touches no shared state, so requests interleave exactly at the     *)
(* handlers' awaits.                                                       *)
(***************************************************************************)
EXTENDS Integers, Sequences, FiniteSets, TLC

\* ------------------------------------------------------------- bounds
MaxBlogs == 2        \* ObjectIds the store hands out in one run
MaxTime == 1         \* clock readings 0..MaxTime
MaxStarted == 5      \* requests received in one run
NumSlots == 2        \* requests in flight at once
MaxCalls == 3        \* login and register calls in one run

\* --------------------------------------------------- program constants
SlugMax == 50
TitleMax == 200
ObjectIdLen == 24
NoDate == -1         \* a Date field holding null / undefined
WordsPerMinute == 200

\* ------------------------------------------------------------- strings
\* A string is a sequence of one-character strings.
LowerLetters == {"a", "b"}
UpperLetters == {"A", "B"}
Digits == {"0", "1"}
Spaces == {" ", "\n"}

IsAlnum(c) == c \in LowerLetters \cup UpperLetters \cup Digits
IsSpace(c) == c \in Spaces
IsHex(c) == c \in LowerLetters \cup UpperLetters \cup Digits

ToLower(c) == CASE c = "A" -> "a" [] c = "B" -> "b" [] OTHER -> c
ToLowerCase(s) == [k \in 1..Len(s) |-> ToLower(s[k])]

\* .replace(/[^a-zA-Z0-9\s]/g, '')
KeepAlnumSpace(c) == IsAlnum(c) \/ IsSpace(c)
StripSpecial(s) == SelectSeq(s, KeepAlnumSpace)

RECURSIVE DropSpaces(_)
DropSpaces(s) ==
  IF s = <<>> THEN <<>>
  ELSE IF IsSpace(Head(s)) THEN DropSpaces(Tail(s)) ELSE s

\* .replace(/\s+/g, '-')
RECURSIVE Hyphenate(_)
Hyphenate(s) ==
  IF s = <<>> THEN <<>>
  ELSE IF IsSpace(Head(s)) THEN <<"-">> \o Hyphenate(DropSpaces(Tail(s)))
  ELSE <<Head(s)>> \o Hyphenate(Tail(s))

\* .substring(0, n)
Substring0(s, n) == SubSeq(s, 1, IF Len(s) < n THEN Len(s) ELSE n)

Slugify(title) == Substring0(Hyphenate(StripSpecial(ToLowerCase(title))), SlugMax)

RECURSIVE DropTrailingSpaces(_)
DropTrailingSpaces(s) ==
  IF s = <<>> THEN <<>>
  ELSE IF IsSpace(s[Len(s)]) THEN DropTrailingSpaces(SubSeq(s, 1, Len(s) - 1)) ELSE s

\* the schema's trim: true setter
Trim(s) == DropTrailingSpaces(DropSpaces(s))

\* this.content.split(' ').length: the pieces between single spaces
SplitLength(s) == Cardinality({k \in 1..Len(s) : s[k] = " "}) + 1

\* Math.ceil(a / b) for a >= 0, b > 0
Ceil(a, b) == (a + b - 1) \div b

\* the pre('save') hook's readingTime
ReadingTime(content) == Ceil(SplitLength(content), WordsPerMinute)

\* ------------------------------------------------------------- inputs
Titles == { <<"A", "b">>, <<"a", "b", "!">>, <<"a", " ", "b">> }
NoTitle == <<>>                     \* title absent (or ''): falsy

\* titles with spaces at the ends and in runs, with characters the derivation
\* strips, with nothing else, and one whose 50th character is a space
LongTitle == [k \in 1..(SlugMax + 2) |-> IF k = SlugMax THEN " " ELSE "a"]
EdgeTitles ==
  { <<" ", "a">>, <<"a", " ">>, <<"A", " ", " ", "1">>, <<"a", "-", "-", "b">>,
    <<"!">>, LongTitle }
StatusInputs == {"draft", "published", "archived"}
NoStatus == ""                      \* status absent: falsy
Undefined == <<>>                   \* a JS value that is undefined
Def(v) == <<v>>                     \* a JS value that is defined

\* a title of 24 letters that are hexadecimal digits
HexTitle == [k \in 1..ObjectIdLen |-> "a"]

NoContent == <<>>                   \* content absent (or ''): falsy
PlainContent == <<"a">>             \* a body of one word

\* a body of n words "a" with sep between them, and gap after the first
\* instead where n > 1
Body(n, sep, gap) ==
  IF n = 1 THEN <<"a">>
  ELSE <<"a">> \o gap \o [k \in 1..(2 * n - 3) |-> IF k % 2 = 1 THEN "a" ELSE sep]

Contents ==
  { Body(WordsPerMinute, " ", <<" ">>),           \* 200 words, single spaces
    Body(WordsPerMinute, " ", <<" ", " ">>),      \* 200 words, one double space
    Body(WordsPerMinute + 1, "\n", <<"\n">>),     \* 201 words, one per line
    Body(2 * WordsPerMinute + 1, " ", <<" ">>) }  \* 401 words, single spaces

Users == {"ed1", "adm"}
Role(u) == IF u = "adm" THEN "admin" ELSE "editor"

\* the browser: tokens and user records the server answers with, null
NoToken == "null"
NoUser == "null"
Tokens == {"t1", "t2"}
Accounts == {"u1", "u2"}

BlogIds == 1..MaxBlogs
Slots == 1..NumSlots

\* the 24-hex-character text of an ObjectId
IdString(i) ==
  [k \in 1..ObjectIdLen |-> IF (i \div (2 ^ (ObjectIdLen - k))) % 2 = 1 THEN "1" ELSE "0"]
IsObjectIdString(s) == Len(s) = ObjectIdLen /\ \A k \in 1..Len(s) : IsHex(s[k])

\* -------------------------------------------------------------- state
VARIABLES
  blogs,        \* the Blog collection: _id -> document
  postsCount,   \* the User collection: user -> stats.postsCount
  nextId,       \* the next ObjectId the store hands out
  now,          \* the clock
  started,      \* requests received so far
  req,          \* per slot: the request in flight
  resp,         \* the response sent by the last step, if it sent one
  viewLog,      \* history: per blog, the reads that completed and how they overlapped
  client        \* the browser: the AuthProvider's state, localStorage, calls in flight

vars == <<blogs, postsCount, nextId, now, started, req, resp, viewLog, client>>
server == <<blogs, postsCount, nextId, now, started, req, resp, viewLog>>

NoDoc == [title |-> <<>>, slug |-> <<>>, content |-> <<>>, author |-> "", status |-> "",
          publishedAt |-> NoDate, updatedAt |-> NoDate, views |-> 0, readingTime |-> 0,
          featured |-> FALSE]

IdleReq == [pc |-> "idle", caller |-> "", id |-> 0, title |-> NoTitle, slug |-> Undefined,
            content |-> NoContent, counts |-> <<>>, status |-> NoStatus, featured |-> Undefined, doc |-> NoDoc, overlapped |-> FALSE]

\* the AuthProvider before its effect has run
NoClient == [mounted |-> FALSE, user |-> NoUser, loading |-> TRUE, token |-> NoToken,
             stored |-> NoToken, header |-> NoToken, pending |-> {}, calls |-> 0]

NoResp == [result |-> "", count |-> Undefined]
NoLog == [done |-> 0, peak |-> 0, lapped |-> 0]

\* a request received takes the first free slot (which slot is immaterial)
Free(r) ==
  /\ started < MaxStarted
  /\ req[r].pc = "idle"
  /\ \A s \in Slots : s < r => req[s].pc # "idle"

\* res.status(...).json(...): the handler ends
Respond(r, result, count) ==
  /\ req' = [req EXCEPT ![r] = IdleReq]
  /\ resp' = [result |-> result, count |-> count]

Init ==
  /\ blogs = << >>
  /\ postsCount = [u \in Users |-> 0]
  /\ nextId = 1
  /\ now = 0
  /\ started = 0
  /\ req = [r \in Slots |-> IdleReq]
  /\ resp = NoResp
  /\ viewLog = [i \in BlogIds |-> NoLog]
  /\ client = NoClient

\* ------------------------------------------------------------- store
Exists(i) == i \in DOMAIN blogs
SlugHolders(slug) == {i \in DOMAIN blogs : blogs[i].slug = slug}
Without(ids) == [i \in DOMAIN blogs \ ids |-> blogs[i]]

\* the middleware: editorAuth admits editors and admins, adminAuth admins
EditorAuth(u) == Role(u) \in {"editor", "admin"}
AdminAuth(u) == Role(u) = "admin"

\* the ownership check with the role test widened to editors
MayMutateAnyEditor(caller, doc) == doc.author = caller \/ Role(caller) \in {"editor", "admin"}

\* the ownership check of update and delete
MayMutate(caller, doc) == doc.author = caller \/ Role(caller) = "admin"

\* the schema's validators that a route's own validation does not cover
SchemaValid(doc) ==
  /\ Len(doc.title) > 0
  /\ Len(doc.title) <= TitleMax
  /\ Len(doc.slug) > 0

\* a collection with no index on slug refuses nothing
NoUniqueIndex(i, slug) == FALSE

\* the unique index on slug: a write giving document i this slug is refused
\* when another document holds it
UniqueSlugRefuses(i, slug) == SlugHolders(slug) \ {i} # {}

\* a || b
OrElse(a, b) == IF a = Undefined \/ a = Def(0) THEN b ELSE a

\* -------------------------------------------------------------- clock
Tick ==
  /\ now < MaxTime
  /\ now' = now + 1
  /\ resp' = NoResp
  /\ UNCHANGED <<blogs, postsCount, nextId, started, req, viewLog, client>>

\* ------------------------------------------------------------- create
CreatesInFlight == Cardinality({r \in Slots : req[r].pc = "create_save"})

\* validation, slug derivation, Blog.findOne({ slug })
CreateCheckOf(r, caller, title, content, status) ==
  /\ Free(r)
  /\ EditorAuth(caller)
  /\ nextId + CreatesInFlight <= MaxBlogs
  /\ started' = started + 1
  /\ IF title = <<>> \/ content = <<>>
     THEN Respond(r, "ValidationFailed", Undefined)
     ELSE IF SlugHolders(Slugify(title)) # {}
     THEN Respond(r, "DuplicateSlug", Undefined)
     ELSE /\ req' = [req EXCEPT ![r] = [IdleReq EXCEPT !.pc = "create_save",
                        !.caller = caller, !.title = title,
                        !.slug = Def(Slugify(title)), !.content = content,
                        !.status = status]]
          /\ resp' = NoResp
  /\ UNCHANGED <<blogs, postsCount, nextId, now, viewLog, client>>

\* a create with a one-word body
CreateCheck(r, caller, title, status) == CreateCheckOf(r, caller, title, PlainContent, status)

NewBlog(q, t) ==
  [title |-> Trim(q.title), slug |-> q.slug[1], content |-> q.content,
   author |-> q.caller, status |-> q.status,
   publishedAt |-> IF q.status = "published" THEN t ELSE NoDate,
   updatedAt |-> t, views |-> 0, readingTime |-> ReadingTime(q.content), featured |-> FALSE]

\* new Blog({...}); blog.save()
CreateSave(r) ==
  /\ req[r].pc = "create_save"
  /\ LET doc == NewBlog(req[r], now) IN
     IF ~SchemaValid(doc) \/ UniqueSlugRefuses(nextId, doc.slug)
     THEN /\ Respond(r, "StoreFailure", Undefined)
          /\ UNCHANGED <<blogs, nextId>>
     ELSE /\ blogs' = [i \in DOMAIN blogs \cup {nextId} |->
                         IF i = nextId THEN doc ELSE blogs[i]]
          /\ nextId' = nextId + 1
          /\ req' = [req EXCEPT ![r].pc = "create_inc", ![r].id = nextId]
          /\ resp' = NoResp
  /\ UNCHANGED <<postsCount, now, started, viewLog, client>>

\* User.findByIdAndUpdate(req.user._id, { $inc: { 'stats.postsCount': 1 } })
CreateInc(r) ==
  /\ req[r].pc = "create_inc"
  /\ postsCount' = [postsCount EXCEPT ![req[r].caller] = @ + 1]
  /\ Respond(r, "Created", Undefined)
  /\ UNCHANGED <<blogs, nextId, now, started, viewLog, client>>

\* ------------------------------------------------------------- update
\* Blog.findById, the ownership check, and whether the title changed
UpdateFindOf(r, caller, id, title, content, status, featured) ==
  /\ Free(r)
  /\ EditorAuth(caller)
  /\ started' = started + 1
  /\ IF ~Exists(id)
     THEN Respond(r, "NotFound", Undefined)
     ELSE IF ~MayMutate(caller, blogs[id])
     THEN Respond(r, "Forbidden", Undefined)
     ELSE /\ req' = [req EXCEPT ![r] = [IdleReq EXCEPT
                        !.pc = IF title # NoTitle /\ title # blogs[id].title
                               THEN "update_check" ELSE "update_save",
                        !.caller = caller, !.id = id, !.title = title,
                        !.slug = IF title # NoTitle /\ title # blogs[id].title
                                 THEN Def(Slugify(title)) ELSE Undefined,
                        !.content = content,
                        !.status = status, !.featured = featured, !.doc = blogs[id]]]
          /\ resp' = NoResp
  /\ UNCHANGED <<blogs, postsCount, nextId, now, viewLog, client>>

\* an update that carries no body
UpdateFind(r, caller, id, title, status, featured) ==
  UpdateFindOf(r, caller, id, title, NoContent, status, featured)

\* Blog.findOne({ slug: newSlug, _id: { $ne: blog._id } })
UpdateCheck(r) ==
  /\ req[r].pc = "update_check"
  /\ IF SlugHolders(req[r].slug[1]) \ {req[r].id} # {}
     THEN Respond(r, "DuplicateSlug", Undefined)
     ELSE /\ req' = [req EXCEPT ![r].pc = "update_save"]
          /\ resp' = NoResp
  /\ UNCHANGED <<blogs, postsCount, nextId, now, started, viewLog, client>>

\* the assignments with publishedAt stamped on every publish, set before or not
AssignedAlwaysStamps(q, t) ==
  [q.doc EXCEPT
     !.title = IF q.title # NoTitle THEN Trim(q.title) ELSE @,
     !.slug = IF q.slug # Undefined THEN q.slug[1] ELSE @,
     !.content = IF q.content # NoContent THEN q.content ELSE @,
     !.readingTime = IF q.content # NoContent /\ q.content # q.doc.content
                     THEN ReadingTime(q.content) ELSE @,
     !.status = IF q.status # NoStatus THEN q.status ELSE @,
     !.publishedAt = IF q.status = "published" THEN t ELSE @,
     !.featured = IF q.featured # Undefined THEN q.featured[1] ELSE @,
     !.updatedAt = t]

\* the handler's assignments to the document it loaded, then the pre('save') hook
Assigned(q, t) ==
  [q.doc EXCEPT
     !.title = IF q.title # NoTitle THEN Trim(q.title) ELSE @,
     !.slug = IF q.slug # Undefined THEN q.slug[1] ELSE @,
     !.content = IF q.content # NoContent THEN q.content ELSE @,
     !.readingTime = IF q.content # NoContent /\ q.content # q.doc.content
                     THEN ReadingTime(q.content) ELSE @,
     !.status = IF q.status # NoStatus THEN q.status ELSE @,
     !.publishedAt = IF q.status = "published" /\ @ = NoDate THEN t ELSE @,
     !.featured = IF q.featured # Undefined THEN q.featured[1] ELSE @,
     !.updatedAt = t]

\* save() of a loaded document writes the paths that differ from what was loaded
Written(stored, loaded, local) ==
  [f \in DOMAIN stored |-> IF local[f] # loaded[f] THEN local[f] ELSE stored[f]]

\* blog.save()
UpdateSave(r) ==
  /\ req[r].pc = "update_save"
  /\ LET q == req[r]
         local == Assigned(q, now)
     IN IF \/ ~SchemaValid(local)
           \/ ~Exists(q.id)
           \/ (local.slug # q.doc.slug /\ UniqueSlugRefuses(q.id, local.slug))
        THEN /\ Respond(r, "StoreFailure", Undefined)
             /\ UNCHANGED blogs
        ELSE /\ blogs' = [blogs EXCEPT ![q.id] = Written(@, q.doc, local)]
             /\ Respond(r, "Ok", Undefined)
  /\ UNCHANGED <<postsCount, nextId, now, started, viewLog, client>>

\* ------------------------------------------------------------- delete
\* Blog.findById and the ownership check
DeleteFind(r, caller, id) ==
  /\ Free(r)
  /\ EditorAuth(caller)
  /\ started' = started + 1
  /\ IF ~Exists(id)
     THEN Respond(r, "NotFound", Undefined)
     ELSE IF ~MayMutate(caller, blogs[id])
     THEN Respond(r, "Forbidden", Undefined)
     ELSE /\ req' = [req EXCEPT ![r] = [IdleReq EXCEPT !.pc = "delete_remove",
                        !.caller = caller, !.id = id, !.doc = blogs[id]]]
          /\ resp' = NoResp
  /\ UNCHANGED <<blogs, postsCount, nextId, now, viewLog, client>>

\* Blog.findByIdAndDelete(req.params.id)
DeleteRemove(r) ==
  /\ req[r].pc = "delete_remove"
  /\ blogs' = Without({req[r].id})
  /\ req' = [req EXCEPT ![r].pc = "delete_dec"]
  /\ resp' = NoResp
  /\ UNCHANGED <<postsCount, nextId, now, started, viewLog, client>>

\* the counter of the caller instead of the author's
DecrementsCaller(q) == q.caller

\* whose counter a delete decrements: blog.author
Decremented(q) == q.doc.author

\* User.findByIdAndUpdate(blog.author, { $inc: { 'stats.postsCount': -1 } })
DeleteDec(r) ==
  /\ req[r].pc = "delete_dec"
  /\ postsCount' = [postsCount EXCEPT ![Decremented(req[r])] = @ - 1]
  /\ Respond(r, "Ok", Undefined)
  /\ UNCHANGED <<blogs, nextId, now, started, viewLog, client>>

\* --------------------------------------------------------------- bulk
BulkActions == {"delete", "publish", "draft", "feature", "unfeature"}

\* the update document of each updateMany
BulkUpdate(action, doc, t) ==
  CASE action = "publish" -> [doc EXCEPT !.status = "published", !.publishedAt = t]
    [] action = "draft" -> [doc EXCEPT !.status = "draft"]
    [] action = "feature" -> [doc EXCEPT !.featured = TRUE]
    [] action = "unfeature" -> [doc EXCEPT !.featured = FALSE]

Matched(ids) == ids \cap DOMAIN blogs
Modified(action, ids, t) == {i \in Matched(ids) : BulkUpdate(action, blogs[i], t) # blogs[i]}

\* modifiedCount: result.modifiedCount || result.deletedCount
BulkCount(action, ids, t) ==
  IF action = "delete"
  THEN OrElse(Undefined, Def(Cardinality(Matched(ids))))
  ELSE OrElse(Def(Cardinality(Modified(action, ids, t))), Undefined)

\* router.post('/bulk'): one deleteMany or updateMany
Bulk(r, caller, action, ids) ==
  /\ Free(r)
  /\ started' = started + 1
  /\ IF ~AdminAuth(caller)
     THEN /\ Respond(r, "Forbidden", Undefined)
          /\ UNCHANGED blogs
     ELSE IF action \notin BulkActions
     THEN /\ Respond(r, "InvalidAction", Undefined)
          /\ UNCHANGED blogs
     ELSE /\ blogs' = IF action = "delete" THEN Without(ids)
                      ELSE [i \in DOMAIN blogs |->
                              IF i \in ids THEN BulkUpdate(action, blogs[i], now)
                              ELSE blogs[i]]
          /\ Respond(r, "Ok", BulkCount(action, ids, now))
  /\ UNCHANGED <<postsCount, nextId, now, viewLog, client>>

\* --------------------------------------------------------------- read
\* identifier.match(/^[0-9a-fA-F]{24}$/) ? { _id: identifier } : { slug: identifier }
Lookup(identifier) ==
  IF IsObjectIdString(identifier)
  THEN {i \in DOMAIN blogs : IdString(i) = identifier}
  ELSE SlugHolders(identifier)

ReadsInFlight(i) == {r \in Slots : req[r].pc = "read_save" /\ req[r].id = i}

\* Blog.findOne(query)
ReadFind(r, identifier) ==
  /\ Free(r)
  /\ started' = started + 1
  /\ IF Lookup(identifier) = {}
     THEN /\ Respond(r, "NotFound", Undefined)
          /\ UNCHANGED viewLog
     ELSE \E i \in Lookup(identifier) :
            LET live == ReadsInFlight(i) \cup {r} IN
            /\ req' = [s \in Slots |->
                         IF s = r
                         THEN [IdleReq EXCEPT !.pc = "read_save", !.id = i, !.doc = blogs[i],
                                              !.overlapped = Cardinality(live) > 1]
                         ELSE IF s \in live THEN [req[s] EXCEPT !.overlapped = TRUE]
                         ELSE req[s]]
            /\ viewLog' = [viewLog EXCEPT ![i].peak =
                             IF Cardinality(live) > @ THEN Cardinality(live) ELSE @]
            /\ resp' = NoResp
  /\ UNCHANGED <<blogs, postsCount, nextId, now, client>>

\* the increment taken twice
ViewedTwice(doc, t) == [doc EXCEPT !.views = @ + 2, !.updatedAt = t]

\* blog.stats.views += 1, then the pre('save') hook
Viewed(doc, t) == [doc EXCEPT !.views = @ + 1, !.updatedAt = t]

\* blog.save()
ReadSave(r) ==
  /\ req[r].pc = "read_save"
  /\ LET q == req[r]
         local == Viewed(q.doc, now)
     IN IF ~Exists(q.id)
        THEN /\ Respond(r, "StoreFailure", Undefined)
             /\ UNCHANGED <<blogs, viewLog, client>>
        ELSE /\ blogs' = [blogs EXCEPT ![q.id] = Written(@, q.doc, local)]
             /\ viewLog' = [viewLog EXCEPT ![q.id].done = @ + 1,
                              ![q.id].lapped = IF q.overlapped THEN @ + 1 ELSE @]
             /\ Respond(r, "Ok", Undefined)
  /\ UNCHANGED <<postsCount, nextId, now, started, client>>

\* ---------------------------------------------------------- dashboard
\* Blog.countDocuments({ status })
CountStatus(status) == Cardinality({i \in DOMAIN blogs : blogs[i].status = status})

\* const totalBlogs = await Blog.countDocuments()
DashTotal(r, caller) ==
  /\ Free(r)
  /\ EditorAuth(caller)
  /\ started' = started + 1
  /\ req' = [req EXCEPT ![r] = [IdleReq EXCEPT !.pc = "dash_users", !.caller = caller,
                                               !.counts = <<Cardinality(DOMAIN blogs)>>]]
  /\ resp' = NoResp
  /\ UNCHANGED <<blogs, postsCount, nextId, now, viewLog, client>>

\* const totalUsers = await User.countDocuments()
DashUsers(r) ==
  /\ req[r].pc = "dash_users"
  /\ req' = [req EXCEPT ![r].pc = "dash_published",
                        ![r].counts = Append(@, Cardinality(DOMAIN postsCount))]
  /\ resp' = NoResp
  /\ UNCHANGED <<blogs, postsCount, nextId, now, started, viewLog, client>>

\* const publishedBlogs = await Blog.countDocuments({ status: 'published' })
DashPublished(r) ==
  /\ req[r].pc = "dash_published"
  /\ req' = [req EXCEPT ![r].pc = "dash_draft",
                        ![r].counts = Append(@, CountStatus("published"))]
  /\ resp' = NoResp
  /\ UNCHANGED <<blogs, postsCount, nextId, now, started, viewLog, client>>

\* const draftBlogs = await Blog.countDocuments({ status: 'draft' })
DashDraft(r) ==
  /\ req[r].pc = "dash_draft"
  /\ req' = [req EXCEPT ![r].pc = "dash_rest",
                        ![r].counts = Append(@, CountStatus("draft"))]
  /\ resp' = NoResp
  /\ UNCHANGED <<blogs, postsCount, nextId, now, started, viewLog, client>>

\* the overview of the response
Overview(counts) ==
  [totalBlogs |-> counts[1], totalUsers |-> counts[2],
   publishedBlogs |-> counts[3], draftBlogs |-> counts[4]]

\* the remaining queries, none of which enters the four counts, and res.json
DashRest(r) ==
  /\ req[r].pc = "dash_rest"
  /\ Respond(r, "Overview", Def(Overview(req[r].counts)))
  /\ UNCHANGED <<blogs, postsCount, nextId, now, started, viewLog, client>>

\* ------------------------------------------------------- AuthProvider
\* Each action is a call of one of the provider's functions up to its await,
\* or the continuation after the await, on the answer or the failure of the
\* request.
CallIds == [op : {"fetchUser", "login", "register"}, n : 0..MaxCalls]
Calls(op) == {c \in client.pending : c.op = op}
Settled(c) == client.pending \ {c}

\* useEffect(() => {...}, []): the effect of the first render
Mount ==
  /\ ~client.mounted
  /\ client' =
       IF client.stored # NoToken
       THEN [client EXCEPT !.mounted = TRUE, !.token = client.stored,
                           !.header = client.stored,
                           !.pending = @ \cup {[op |-> "fetchUser", n |-> 0]}]
       ELSE [client EXCEPT !.mounted = TRUE, !.loading = FALSE]
  /\ UNCHANGED server

\* fetchUser after its await: setUser(response.data); setLoading(false)
FetchUserOk(c, userData) ==
  /\ c \in Calls("fetchUser")
  /\ client' = [client EXCEPT !.user = userData, !.loading = FALSE, !.pending = Settled(c)]
  /\ UNCHANGED server

\* fetchUser's catch and finally
FetchUserFail(c) ==
  /\ c \in Calls("fetchUser")
  /\ client' = [client EXCEPT !.stored = NoToken, !.header = NoToken, !.token = NoToken,
                              !.loading = FALSE, !.pending = Settled(c)]
  /\ UNCHANGED server

\* login and register up to their axios.post
Post(op) ==
  /\ client.mounted
  /\ client.calls < MaxCalls
  /\ client' = [client EXCEPT !.calls = @ + 1,
                              !.pending = @ \cup {[op |-> op, n |-> client.calls + 1]}]
  /\ UNCHANGED server

\* login and register after their await, on the answer { token, user }
Answered(c, authToken, userData) ==
  /\ client' = [client EXCEPT !.stored = authToken, !.header = authToken,
                              !.token = authToken, !.user = userData,
                              !.pending = Settled(c)]
  /\ UNCHANGED server

\* login's and register's catch: throw new Error(...)
Thrown(c) ==
  /\ client' = [client EXCEPT !.pending = Settled(c)]
  /\ UNCHANGED server

Login == Post("login")
LoginOk(c, authToken, userData) == c \in Calls("login") /\ Answered(c, authToken, userData)
LoginFail(c) == c \in Calls("login") /\ Thrown(c)

Register == Post("register")
RegisterOk(c, authToken, userData) ==
  c \in Calls("register") /\ Answered(c, authToken, userData)
RegisterFail(c) == c \in Calls("register") /\ Thrown(c)

Logout ==
  /\ client.mounted
  /\ client' = [client EXCEPT !.stored = NoToken, !.header = NoToken, !.token = NoToken,
                              !.user = NoUser]
  /\ UNCHANGED server

\* the page is loaded again: the provider starts over, the requests of the
\* page before are dropped with it, localStorage stays
Reload ==
  /\ client.mounted
  /\ client' = [NoClient EXCEPT !.stored = client.stored, !.calls = client.calls]
  /\ UNCHANGED server

\* ------------------------------------------------------ specifications
Identifiers == {IdString(i) : i \in BlogIds} \cup {Slugify(t) : t \in Titles}
FeaturedInputs == {Undefined, Def(TRUE), Def(FALSE)}

CreateOps(users, titles, statuses) ==
  \/ \E r \in Slots, u \in users, t \in titles, s \in statuses : CreateCheck(r, u, t, s)
  \/ \E r \in Slots : CreateSave(r)
  \/ \E r \in Slots : CreateInc(r)

CreateOpsOf(users, titles, contents, statuses) ==
  \/ \E r \in Slots, u \in users, t \in titles, c \in contents, s \in statuses :
        CreateCheckOf(r, u, t, c, s)
  \/ \E r \in Slots : CreateSave(r)
  \/ \E r \in Slots : CreateInc(r)

UpdateOpsOf(users, titles, contents, statuses, featureds) ==
  \/ \E r \in Slots, u \in users, i \in BlogIds, t \in titles, c \in contents,
        s \in statuses, f \in featureds : UpdateFindOf(r, u, i, t, c, s, f)
  \/ \E r \in Slots : UpdateCheck(r)
  \/ \E r \in Slots : UpdateSave(r)

UpdateOps(users, titles, statuses, featureds) ==
  \/ \E r \in Slots, u \in users, i \in BlogIds, t \in titles, s \in statuses,
        f \in featureds : UpdateFind(r, u, i, t, s, f)
  \/ \E r \in Slots : UpdateCheck(r)
  \/ \E r \in Slots : UpdateSave(r)

DeleteOps(users) ==
  \/ \E r \in Slots, u \in users, i \in BlogIds : DeleteFind(r, u, i)
  \/ \E r \in Slots : DeleteRemove(r)
  \/ \E r \in Slots : DeleteDec(r)

BulkOps(users, actions) ==
  \E r \in Slots, u \in users, a \in actions, ids \in SUBSET BlogIds : Bulk(r, u, a, ids)

DashOps(users) ==
  \/ \E r \in Slots, u \in users : DashTotal(r, u)
  \/ \E r \in Slots : DashUsers(r)
  \/ \E r \in Slots : DashPublished(r)
  \/ \E r \in Slots : DashDraft(r)
  \/ \E r \in Slots : DashRest(r)

ReadOps(identifiers) ==
  \/ \E r \in Slots, x \in identifiers : ReadFind(r, x)
  \/ \E r \in Slots : ReadSave(r)

\* every route, every input
Next ==
  \/ Tick
  \/ CreateOpsOf(Users, Titles, Contents \cup {NoContent, PlainContent}, {"draft", "published"})
  \/ UpdateOpsOf(Users, Titles \cup {NoTitle}, Contents \cup {NoContent, PlainContent},
                 StatusInputs \cup {NoStatus}, FeaturedInputs)
  \/ DeleteOps(Users)
  \/ BulkOps(Users, BulkActions \cup {"other"})
  \/ ReadOps(Identifiers)
  \/ DashOps(Users)

Spec == Init /\ [][Next]_vars

\* the store's contents and counters: titles change, no status does, and the
\* clock stands still
NextStore ==
  \/ CreateOps(Users, Titles, {"draft"})
  \/ UpdateOps(Users, Titles \cup {NoTitle}, {NoStatus}, {Undefined})
  \/ DeleteOps(Users)
  \/ BulkOps({"adm"}, {"delete", "publish"})

SpecStore == Init /\ [][NextStore]_vars

\* publication and timestamps: the clock runs, every status and every bulk
\* action occurs; one caller, who may do all of it
NextPublish ==
  \/ Tick
  \/ CreateOps({"adm"}, {<<"A", "b">>, <<"a", " ", "b">>}, {"draft", "published"})
  \/ UpdateOps({"adm"}, {NoTitle, <<"a", " ", "b">>}, StatusInputs \cup {NoStatus}, {Undefined})
  \/ BulkOps({"adm"}, BulkActions \cup {"other"})

SpecPublish == Init /\ [][NextPublish]_vars

\* the view counter: reads of the stored records, by id and by slug, with
\* updates and deletes among them
NextViews ==
  \/ Tick
  \/ CreateOps({"adm"}, {<<"A", "b">>, <<"a", " ", "b">>}, {"published"})
  \/ UpdateOps({"adm"}, {NoTitle, <<"a", " ", "b">>}, {NoStatus, "draft"}, {Undefined})
  \/ DeleteOps({"adm"})
  \/ ReadOps(Identifiers)

SpecViews == Init /\ [][NextViews]_vars

\* the body and the reading time: creates and updates with bodies around the
\* 200-word mark, and reads and bulk publishes among them
NextContent ==
  \/ CreateOpsOf({"adm"}, {<<"A", "b">>}, Contents, {"draft"})
  \/ UpdateOpsOf({"adm"}, {NoTitle, <<"a", " ", "b">>}, Contents \cup {NoContent},
                 {NoStatus}, {Undefined})
  \/ ReadOps({IdString(1)})
  \/ BulkOps({"adm"}, {"publish"})

SpecContent == Init /\ [][NextContent]_vars

\* slug derivation: creates and title-changing updates over the edge titles
NextSlug ==
  \/ CreateOps({"adm"}, EdgeTitles, {"draft"})
  \/ UpdateOps({"adm"}, EdgeTitles \cup {NoTitle}, {NoStatus}, {Undefined})

SpecSlug == Init /\ [][NextSlug]_vars

\* read by identifier: by each id and by each slug that the two titles
\* derive, one of them 24 hexadecimal characters long
LookupTitles == {<<"A", "b">>, HexTitle}
LookupIdentifiers == {IdString(i) : i \in BlogIds} \cup {Slugify(t) : t \in LookupTitles}

NextLookup ==
  \/ CreateOps({"adm"}, LookupTitles, {"draft"})
  \/ DeleteOps({"adm"})
  \/ ReadOps(LookupIdentifiers)

SpecLookup == Init /\ [][NextLookup]_vars

\* the dashboard among the writers: creates, status updates, deletes and
\* bulk actions between its count queries
NextDash ==
  \/ CreateOps({"adm"}, {<<"A", "b">>, <<"a", " ", "b">>}, {"draft", "published"})
  \/ UpdateOps({"adm"}, {NoTitle, <<"a", " ", "b">>}, StatusInputs, {Undefined})
  \/ DeleteOps({"adm"})
  \/ BulkOps({"adm"}, {"delete", "publish", "draft"})
  \/ DashOps({"adm"})

SpecDash == Init /\ [][NextDash]_vars

\* the AuthProvider
NextAuth ==
  \/ Mount
  \/ \E c \in CallIds, u \in Accounts : FetchUserOk(c, u)
  \/ \E c \in CallIds : FetchUserFail(c)
  \/ Login
  \/ \E c \in CallIds, t \in Tokens, u \in Accounts : LoginOk(c, t, u)
  \/ \E c \in CallIds : LoginFail(c)
  \/ Register
  \/ \E c \in CallIds, t \in Tokens, u \in Accounts : RegisterOk(c, t, u)
  \/ \E c \in CallIds : RegisterFail(c)
  \/ Logout
  \/ Reload

SpecAuth == Init /\ [][NextAuth]_vars

\* ------------------------------------------------------------- claims
Quiescent == \A r \in Slots : req[r].pc = "idle"
Authored(u) == Cardinality({i \in DOMAIN blogs : blogs[i].author = u})

\* C1: in every reachable state, whatever the interleaving of create, update,
\* delete and bulk requests, no two distinct Content records have the same slug.
C1_SlugsUnique ==
  \A i, j \in DOMAIN blogs : i # j => blogs[i].slug # blogs[j].slug

\* C1's case: two records are stored and a request that passed its existence
\* check is about to write a slug that another record holds by now.
C1_Witness ==
  /\ Cardinality(DOMAIN blogs) = 2
  /\ \E r \in Slots :
       /\ req[r].pc \in {"create_save", "update_save"}
       /\ req[r].slug # Undefined
       /\ SlugHolders(req[r].slug[1]) \ {req[r].id} # {}

\* C2: a create whose title derives a slug that an existing record holds
\* (when the create checks for it, or by the time it saves: the second of any
\* two creates deriving the same slug) fails with DuplicateSlug, stores no
\* record and leaves every post counter unchanged.
C2_DuplicateCreateFails400 ==
  [][\A r \in Slots :
       (\/ \E t \in Titles :
             /\ SlugHolders(Slugify(t)) # {}
             /\ started' = started + 1
             /\ \E u \in Users, s \in StatusInputs : CreateCheck(r, u, t, s)
        \/ CreateSave(r) /\ SlugHolders(req[r].slug[1]) # {})
       => /\ resp'.result = "DuplicateSlug"
          /\ req'[r].pc = "idle"
          /\ blogs' = blogs
          /\ postsCount' = postsCount]_vars

\* C5: whenever no request is in flight (every create, delete and bulk delete
\* received so far has completed), each Identity's postsCount equals the
\* number of Content records it authors.
C5_CountersConsistent ==
  Quiescent => \A u \in Users : postsCount[u] = Authored(u)

\* C6: a delete that fails with NotFound or Forbidden changes no record and no
\* counter; a successful delete removes the record and nothing else, and then
\* decrements the counter of the record's author, and no other counter, by
\* exactly 1.
C6_DeleteDecrementsOwner ==
  [][\A r \in Slots :
       /\ \A u \in Users, i \in BlogIds :
            started' = started + 1 /\ req'[r].pc = "idle" /\ DeleteFind(r, u, i)
            => /\ resp'.result \in {"NotFound", "Forbidden"}
               /\ blogs' = blogs
               /\ postsCount' = postsCount
       /\ DeleteRemove(r)
          => /\ req[r].id \notin DOMAIN blogs'
             /\ \A j \in DOMAIN blogs \ {req[r].id} : j \in DOMAIN blogs' /\ blogs'[j] = blogs[j]
             /\ Exists(req[r].id) => blogs[req[r].id].author = req[r].doc.author
             /\ postsCount' = postsCount
             /\ req'[r].pc = "delete_dec"
       /\ DeleteDec(r)
          => /\ resp'.result = "Ok"
             /\ req'[r].pc = "idle"
             /\ blogs' = blogs
             /\ ~Exists(req[r].id)
             /\ \A u \in Users :
                  postsCount'[u] = IF u = req[r].doc.author THEN postsCount[u] - 1
                                   ELSE postsCount[u]]_vars

\* C6's case: an admin's delete of another user's record has removed the
\* record and is about to decrement the author's counter, not the admin's.
C6_Witness ==
  \E r \in Slots :
    /\ req[r].pc = "delete_dec"
    /\ req[r].caller # req[r].doc.author
    /\ ~Exists(req[r].id)
    /\ postsCount[req[r].doc.author] = 1

\* C8: an update or delete of an existing record by a caller who is neither
\* its author nor an admin is answered Forbidden and changes no record, slug
\* or counter; every later step of an update or delete is taken for the
\* record's author or for an admin.
C8_OnlyOwnerOrAdminMutates ==
  [][\A r \in Slots :
       /\ \A u \in Users, i \in BlogIds :
            /\ Exists(i)
            /\ blogs[i].author # u
            /\ Role(u) # "admin"
            /\ started' = started + 1
            /\ \/ DeleteFind(r, u, i)
               \/ \E t \in Titles \cup {NoTitle}, s \in StatusInputs \cup {NoStatus},
                     f \in FeaturedInputs : UpdateFind(r, u, i, t, s, f)
            => /\ resp'.result = "Forbidden"
               /\ req'[r].pc = "idle"
               /\ blogs' = blogs
               /\ postsCount' = postsCount
       /\ (UpdateCheck(r) \/ UpdateSave(r) \/ DeleteRemove(r) \/ DeleteDec(r))
          => (req[r].caller = req[r].doc.author \/ Role(req[r].caller) = "admin")]_vars

\* C8's case: an editor's update or delete of another user's stored record was
\* just refused.
C8_Witness ==
  /\ resp.result = "Forbidden"
  /\ DOMAIN blogs # {}
  /\ \E i \in DOMAIN blogs : Role(blogs[i].author) = "editor"
\* C3: an update that sets status to 'published' on a record it loaded with
\* publishedAt unset sets publishedAt to the time of its save; an update that
\* sets status to 'published' on a record it loaded with publishedAt set (a
\* later update, whatever the status was in between) leaves publishedAt as
\* it is.
C3_PublishedAtSetOnce ==
  [][\A r \in Slots :
       req[r].status = "published" /\ UpdateSave(r) /\ resp'.result = "Ok"
       => blogs'[req[r].id].publishedAt =
            IF req[r].doc.publishedAt = NoDate THEN now
            ELSE blogs[req[r].id].publishedAt]_vars

\* C3's case: a record published at an earlier time and set back to draft
\* since is loaded by an update that sets it to 'published' again.
C3_Witness ==
  \E r \in Slots :
    /\ req[r].pc = "update_save"
    /\ req[r].status = "published"
    /\ req[r].doc.status = "draft"
    /\ req[r].doc.publishedAt # NoDate
    /\ req[r].doc.publishedAt < now
    /\ Exists(req[r].id)
    /\ blogs[req[r].id] = req[r].doc

\* C4: once a record's publishedAt is set, no operation changes it.
C4_PublishedAtNeverRewritten ==
  [][\A i \in DOMAIN blogs \cap DOMAIN blogs' :
       blogs[i].publishedAt # NoDate => blogs'[i].publishedAt = blogs[i].publishedAt]_vars

\* C7: a bulk 'publish' sets status to 'published' on exactly the stored
\* records whose id is among the identifiers, sets publishedAt on those of them
\* that lacked it, changes no other record, and answers a modified count equal
\* to the number of matched records, 0 included.
C7_BulkPublishMatched ==
  [][\A r \in Slots, ids \in SUBSET BlogIds :
       started' = started + 1 /\ (\E u \in Users : AdminAuth(u) /\ Bulk(r, u, "publish", ids))
       => /\ DOMAIN blogs' = DOMAIN blogs
          /\ \A i \in DOMAIN blogs :
               IF i \in ids
               THEN /\ blogs'[i].status = "published"
                    /\ blogs[i].publishedAt = NoDate => blogs'[i].publishedAt = now
               ELSE blogs'[i] = blogs[i]
          /\ resp'.count = Def(Cardinality(ids \cap DOMAIN blogs))]_vars

\* C10: every operation that changes a stored record sets that record's
\* updatedAt to the time of the change.
C10_UpdatedAtRefreshed ==
  [][\A i \in DOMAIN blogs \cap DOMAIN blogs' :
       blogs'[i] # blogs[i] => blogs'[i].updatedAt = now]_vars
\* C9: a record's view counter never exceeds the number of reads of it that
\* completed and is at least 1 once one has; it equals that number as long as
\* no two reads of the record overlapped; and what it falls short by is at
\* most the number of completed reads that overlapped another read of the
\* record.
C9_ViewsCountReads ==
  \A i \in DOMAIN blogs :
    /\ blogs[i].views <= viewLog[i].done
    /\ viewLog[i].done >= 1 => blogs[i].views >= 1
    /\ viewLog[i].peak <= 1 => blogs[i].views = viewLog[i].done
    /\ viewLog[i].done - blogs[i].views <= viewLog[i].lapped

\* C9's case: two overlapping reads of a record completed and the counter
\* moved by 1.
C9_Witness ==
  \E i \in DOMAIN blogs :
    /\ viewLog[i].done = 2
    /\ viewLog[i].lapped = 2
    /\ viewLog[i].peak = 2
    /\ blogs[i].views = 1

\* C9 as stated: what the counter falls short by is at most the largest
\* number of reads of the record that were in flight at once.
C9_ShortfallWithinPeak ==
  \A i \in DOMAIN blogs :
    viewLog[i].done - blogs[i].views <= viewLog[i].peak

\* the words of a body: its maximal runs of characters that are not whitespace
WordCount(s) ==
  Cardinality({k \in 1..Len(s) : ~IsSpace(s[k]) /\ (k = 1 \/ IsSpace(s[k - 1]))})

\* C11: whenever a record's body is set by create or update, its readingTime
\* becomes ceil(w / 200) where w is the number of words in the body, for every
\* body, also one whose words are separated by several spaces or by newlines;
\* a step that does not change the body leaves readingTime unchanged.
C11_ReadingTimeFromWords ==
  [][\A i \in DOMAIN blogs' :
       IF i \notin DOMAIN blogs \/ blogs'[i].content # blogs[i].content
       THEN blogs'[i].readingTime = Ceil(WordCount(blogs'[i].content), WordsPerMinute)
       ELSE blogs'[i].readingTime = blogs[i].readingTime]_vars

SlugChars == LowerLetters \cup Digits \cup {"-"}

\* C12: for every title accepted by create or update, the derived slug (the
\* slug of the stored record) is lowercase, consists only of characters in
\* [a-z0-9-], has no leading or trailing hyphen and no run of consecutive
\* hyphens, and has length at most 50.
C12_SlugWellFormed ==
  \A i \in DOMAIN blogs :
    LET slug == blogs[i].slug IN
    /\ \A k \in 1..Len(slug) : slug[k] \in SlugChars
    /\ Len(slug) <= SlugMax
    /\ slug # <<>> => slug[1] # "-" /\ slug[Len(slug)] # "-"
    /\ \A k \in 1..(Len(slug) - 1) : ~(slug[k] = "-" /\ slug[k + 1] = "-")

\* C13: an update re-derives the slug exactly when its request carries a
\* title different from the stored title it loaded; when the new slug is held
\* by a different record (at the update's check or by the time it saves) the
\* update fails with DuplicateSlug and changes no field of any record; a
\* collision with the record's own slug is no error; and an update that does
\* not change the record's title leaves its slug unchanged.
C13_UpdateRederivesSlug ==
  [][\A r \in Slots :
       /\ req[r].pc = "idle" /\ req'[r].pc \in {"update_check", "update_save"}
          => LET q == req'[r] IN
             /\ q.slug # Undefined <=> (q.title # NoTitle /\ q.title # q.doc.title)
             /\ q.slug # Undefined => q.slug = Def(Slugify(q.title))
       /\ (UpdateCheck(r) \/ UpdateSave(r))
          /\ req[r].slug # Undefined
          /\ SlugHolders(req[r].slug[1]) \ {req[r].id} # {}
          => /\ resp'.result = "DuplicateSlug"
             /\ blogs' = blogs
       /\ UpdateCheck(r) /\ SlugHolders(req[r].slug[1]) \subseteq {req[r].id}
          => req'[r].pc = "update_save"
       /\ UpdateSave(r) /\ resp'.result = "Ok"
          /\ blogs'[req[r].id].title = blogs[req[r].id].title
          => blogs'[req[r].id].slug = blogs[req[r].id].slug]_vars

\* C14: a read by identifier finds an existing record whenever the identifier
\* equals that record's id or its slug, for every slug that create can
\* produce, one of 24 hexadecimal characters included; it answers NotFound
\* only when no record has that id or slug.
C14_ReadFindsByIdOrSlug ==
  [][\A r \in Slots, x \in LookupIdentifiers :
       started' = started + 1 /\ ReadFind(r, x)
       => LET hits == {i \in DOMAIN blogs : IdString(i) = x \/ blogs[i].slug = x} IN
          IF hits = {} THEN resp'.result = "NotFound"
          ELSE req'[r].pc = "read_save" /\ req'[r].id \in hits]_vars

\* C15: starting from consistent counters, no sequence or interleaving of
\* create, delete and bulk requests, two overlapping deletes of one record
\* included, drives any Identity's postsCount below 0.
C15_PostsCountNeverNegative ==
  \A u \in Users : postsCount[u] >= 0

\* C16: in every dashboard overview response, publishedBlogs + draftBlogs is
\* at most totalBlogs, also when create, delete, update or bulk requests run
\* between the dashboard's successive count queries.
C16_DashboardCountsAddUp ==
  resp.result = "Overview"
  => resp.count[1].publishedBlogs + resp.count[1].draftBlogs <= resp.count[1].totalBlogs

\* C17: in the AuthProvider, once mounted, after any sequence of login,
\* register and logout calls and any ordering of their completions and
\* failures, a non-null user implies a non-null token in state, and the token
\* in state equals the token held in localStorage.
C17_UserImpliesToken ==
  client.mounted
  => /\ client.user # NoUser => client.token # NoToken
     /\ client.token = client.stored
=============================================================================
